---- MODULE Spec2Model ----
(***************************************************************************)
(* Model of NLP_analysis_script.py: the clean_text normaliser, the load /   *)
(* clean / save prefix of the script and the five analyses H1-H5.           *)
(*                                                                         *)
(* A character is a one-character string; a character outside ASCII is     *)
(* named by its code point ("U+2019").  A text is a sequence of characters, *)
(* a token is a text without whitespace.  A missing value (pandas NaN) is   *)
(* the one-element sequence NaN, whose element is not a character.          *)
(***************************************************************************)
EXTENDS Integers, Sequences, FiniteSets, TLC

\* ------------------------------------------------------------------ bounds
MaxLen == 5          \* longest text handed to clean_text on its own
MaxRows == 2         \* rows of a table drawn from SampleRows
MaxAuthorRows == 6   \* rows of a table of one-word quotes, many authors
MaxOrderRows == 1    \* rows of a table analysed in every order of H1-H5

\* ------------------------------------------------------- program constants
TopWords == 20       \* h1_freq.most_common(20)
TopAuthors == 5      \* sorted(...)[:5] and nlargest(5)
TopNgrams == 10      \* most_common(10)

NaN == <<"NaN">>

Whitespace == {" ", "\t", "\n", "\r", "\f"}

\* string.punctuation
Punctuation ==
  {"!", "\"", "#", "$", "%", "&", "'", "(", ")", "*", "+", ",", "-", ".",
   "/", ":", ";", "<", "=", ">", "?", "@", "[", "\\", "]", "^", "_", "U+0060",
   "{", "|", "}", "~"}

UpperCase ==
  <<"A", "B", "C", "D", "E", "F", "G", "H", "I", "J", "K", "L", "M",
    "N", "O", "P", "Q", "R", "S", "T", "U", "V", "W", "X", "Y", "Z">>

LowerCase ==
  <<"a", "b", "c", "d", "e", "f", "g", "h", "i", "j", "k", "l", "m",
    "n", "o", "p", "q", "r", "s", "t", "u", "v", "w", "x", "y", "z">>

\* ----------------------------------------------------------- str helpers
Min(a, b) == IF a < b THEN a ELSE b

\* str.replace(c, "") for a one-character c
Replace(s, c) == SelectSeq(s, LAMBDA x : x # c)

\* str.lower() on one character
Lower(c) ==
  IF \E i \in 1..Len(UpperCase) : UpperCase[i] = c
  THEN LowerCase[CHOOSE i \in 1..Len(UpperCase) : UpperCase[i] = c]
  ELSE c

ToLower(s) == [i \in 1..Len(s) |-> Lower(s[i])]

\* re.sub(r"\s+", " ", s): the first character of every whitespace run
\* becomes one space, the rest of the run is dropped
CollapseWhitespace(s) ==
  LET keep == SelectSeq([i \in 1..Len(s) |-> i],
                        LAMBDA i : \/ s[i] \notin Whitespace
                                   \/ i = 1
                                   \/ s[i - 1] \notin Whitespace)
  IN  [k \in 1..Len(keep) |->
         IF s[keep[k]] \in Whitespace THEN " " ELSE s[keep[k]]]

\* s.translate(str.maketrans("", "", string.punctuation))
RemovePunctuation(s) == SelectSeq(s, LAMBDA c : c \notin Punctuation)

\* str.strip()
Strip(s) ==
  LET ink == {i \in 1..Len(s) : s[i] \notin Whitespace}
  IN  IF ink = {} THEN <<>>
      ELSE SubSeq(s, CHOOSE i \in ink : \A j \in ink : i <= j,
                     CHOOSE i \in ink : \A j \in ink : i >= j)

\* the chain of replace calls of clean_text; U+2018 is named twice
RemoveQuotes(s) ==
  Replace(Replace(Replace(Replace(Replace(Replace(s,
    "U+201C"), "U+201D"), "U+2018"), "U+2018"), "\""), "'")

isnull(text) == text = NaN

clean_text(text) ==
  IF isnull(text) THEN <<>>
  ELSE Strip(RemovePunctuation(ToLower(CollapseWhitespace(RemoveQuotes(text)))))

\* str.split(): the maximal runs of non-whitespace characters, in order
Split(s) ==
  LET index == [i \in 1..Len(s) |-> i]
      starts == SelectSeq(index, LAMBDA i : /\ s[i] \notin Whitespace
                                            /\ (i = 1 \/ s[i - 1] \in Whitespace))
      ends == SelectSeq(index, LAMBDA i : /\ s[i] \notin Whitespace
                                          /\ (i = Len(s) \/ s[i + 1] \in Whitespace))
  IN  [k \in 1..Len(starts) |-> SubSeq(s, starts[k], ends[k])]

\* " ".join(texts)
RECURSIVE Join(_)
Join(texts) ==
  IF texts = <<>> THEN <<>>
  ELSE IF Len(texts) = 1 THEN texts[1]
  ELSE texts[1] \o <<" ">> \o Join(Tail(texts))

MotivationalWords ==
  {
    <<"a", "c", "h", "i", "e", "v", "e">>,
    <<"b", "e", "l", "i", "e", "v", "e">>,
    <<"b", "r", "a", "v", "e">>,
    <<"c", "o", "m", "m", "i", "t">>,
    <<"c", "o", "u", "r", "a", "g", "e">>,
    <<"c", "r", "e", "a", "t", "e">>,
    <<"d", "e", "d", "i", "c", "a", "t", "i", "o", "n">>,
    <<"d", "r", "e", "a", "m">>,
    <<"e", "f", "f", "o", "r", "t">>,
    <<"f", "a", "i", "t", "h">>,
    <<"f", "o", "c", "u", "s">>,
    <<"g", "o", "a", "l">>,
    <<"g", "r", "a", "c", "e">>,
    <<"g", "r", "a", "t", "i", "t", "u", "d", "e">>,
    <<"g", "r", "a", "t", "e", "f", "u", "l">>,
    <<"g", "r", "o", "w">>,
    <<"h", "o", "p", "e">>,
    <<"i", "m", "a", "g", "i", "n", "e">>,
    <<"i", "n", "s", "p", "i", "r", "e">>,
    <<"j", "o", "u", "r", "n", "e", "y">>,
    <<"j", "o", "y">>,
    <<"k", "i", "n", "d", "n", "e", "s", "s">>,
    <<"l", "e", "a", "r", "n">>,
    <<"l", "o", "v", "e">>,
    <<"m", "o", "t", "i", "v", "a", "t", "e">>,
    <<"p", "a", "s", "s", "i", "o", "n">>,
    <<"p", "e", "r", "s", "e", "v", "e", "r", "e">>,
    <<"p", "o", "s", "i", "t", "i", "v", "e">>,
    <<"p", "o", "w", "e", "r">>,
    <<"p", "r", "o", "g", "r", "e", "s", "s">>,
    <<"r", "e", "s", "i", "l", "i", "e", "n", "c", "e">>,
    <<"r", "i", "s", "e">>,
    <<"s", "m", "i", "l", "e">>,
    <<"s", "t", "r", "e", "n", "g", "t", "h">>,
    <<"s", "u", "c", "c", "e", "s", "s">>,
    <<"t", "r", "u", "s", "t">>,
    <<"w", "i", "l", "l">>,
    <<"w", "i", "n">>
  }

SecondPersonWords ==
  {
    <<"y", "o", "u">>,
    <<"y", "o", "u", "r">>,
    <<"y", "o", "u", "r", "s">>,
    <<"y", "o", "u", "r", "s", "e", "l", "f">>,
    <<"y", "o", "u", "r", "s", "e", "l", "v", "e", "s">>
  }

PositiveEmotions ==
  {
    <<"l", "o", "v", "e">>,
    <<"h", "o", "p", "e">>,
    <<"b", "e", "l", "i", "e", "v", "e">>,
    <<"h", "a", "p", "p", "y">>,
    <<"j", "o", "y">>,
    <<"d", "r", "e", "a", "m">>,
    <<"i", "n", "s", "p", "i", "r", "e">>,
    <<"g", "r", "a", "t", "e", "f", "u", "l">>
  }

NegativeEmotions ==
  {
    <<"f", "e", "a", "r">>,
    <<"h", "a", "t", "e">>,
    <<"s", "a", "d">>,
    <<"p", "a", "i", "n">>,
    <<"h", "u", "r", "t">>,
    <<"f", "a", "i", "l">>,
    <<"a", "l", "o", "n", "e">>,
    <<"l", "o", "s", "t">>
  }

QuoteYou ==
  <<
    "U+201C", "Y", "o", "u", " ", "l", "o", "v", "e", " ", "y", "o", "u",
    "r", " ", "D", "r", "e", "a", "m", " ", "-", " ", "d", "o", "n",
    "U+2019", "t", " ", "f", "e", "a", "r", "!", "U+201D"
  >>

QuoteHope ==
  <<
    " ", " ", "H", "o", "p", "e", ",", "\t", "y", "o", "u", " ", "h", "o",
    "p", "e", " "
  >>

QuoteLong ==
  <<
    "W", "i", "n", ",", " ", "w", "i", "n", ":", " ", "a", "c", "h", "i",
    "e", "v", "e", " ", "b", "e", "l", "i", "e", "v", "e", " ", "b", "r",
    "a", "v", "e", " ", "c", "o", "m", "m", "i", "t", " ", "c", "o", "u",
    "r", "a", "g", "e", " ", "c", "r", "e", "a", "t", "e", " ", "d", "e",
    "d", "i", "c", "a", "t", "i", "o", "n", " ", "d", "r", "e", "a", "m",
    " ", "e", "f", "f", "o", "r", "t", " ", "f", "a", "i", "t", "h", " ",
    "f", "o", "c", "u", "s", " ", "g", "o", "a", "l", " ", "g", "r", "a",
    "c", "e", " ", "g", "r", "a", "t", "i", "t", "u", "d", "e", " ", "g",
    "r", "a", "t", "e", "f", "u", "l", " ", "g", "r", "o", "w", " ", "h",
    "o", "p", "e", " ", "i", "m", "a", "g", "i", "n", "e", " ", "i", "n",
    "s", "p", "i", "r", "e", " ", "j", "o", "u", "r", "n", "e", "y", " ",
    "j", "o", "y", " ", "k", "i", "n", "d", "n", "e", "s", "s", " ", "a",
    "c", "h", "i", "e", "v", "e", " ", "b", "e", "l", "i", "e", "v", "e",
    " ", "b", "r", "a", "v", "e"
  >>

QuoteLove ==
  <<
    "L", "o", "v", "e"
  >>

TagLife ==
  <<
    "l", "i", "f", "e"
  >>

TagInsp ==
  <<
    "L", "o", "v", "e", ",", "I", "N", "S", "P", "I", "R", "A", "T", "I",
    "O", "N", "A", "L", "-", "q", "u", "o", "t", "e", "s"
  >>

TagNeedle ==
  <<
    "i", "n", "s", "p", "i", "r", "a", "t", "i", "o", "n", "a", "l"
  >>

\* ------------------------------------------------------ collections helpers
Take(s, n) == SubSeq(s, 1, Min(n, Len(s)))

\* the indices of the first occurrence of every value of s, ascending
FirstOccurrences(s) ==
  SelectSeq([i \in 1..Len(s) |-> i],
            LAMBDA i : \A j \in 1..(i - 1) : s[j] # s[i])

\* collections.Counter(s): one <<key, count>> entry per distinct value,
\* in the order of first insertion
Counter(s) ==
  LET first == FirstOccurrences(s)
  IN  [k \in 1..Len(first) |->
         <<s[first[k]], Cardinality({j \in 1..Len(s) : s[j] = s[first[k]]})>>]

\* faulty variant of InsertDesc: an entry goes in front of the entries of equal
\* key
InsertDesc_unstable(sorted, e) ==
  LET before == {i \in 1..Len(sorted) : sorted[i][2] > e[2]}
      n == Cardinality(before)
  IN  SubSeq(sorted, 1, n) \o <<e>> \o SubSeq(sorted, n + 1, Len(sorted))

\* sorted(entries, key=Key, reverse=True) by insertion: an entry goes behind
\* every entry whose key is greater than or equal to its own, which keeps
\* entries of equal key in their original order.  entries are <<value, key>>
InsertDesc(sorted, e) ==
  LET before == {i \in 1..Len(sorted) : sorted[i][2] >= e[2]}
      n == Cardinality(before)
  IN  SubSeq(sorted, 1, n) \o <<e>> \o SubSeq(sorted, n + 1, Len(sorted))

RECURSIVE SortedDescFrom(_, _, _)
SortedDescFrom(entries, i, acc) ==
  IF i > Len(entries) THEN acc
  ELSE SortedDescFrom(entries, i + 1, InsertDesc(acc, entries[i]))

\* faulty variant of SortedDesc: the entries stay in insertion order
SortedDesc_unsorted(entries) == entries

SortedDesc(entries) == SortedDescFrom(entries, 1, <<>>)

\* Counter.most_common(n) = heapq.nlargest(n, items, key=count), which is
\* sorted(items, key=count, reverse=True)[:n]
most_common(counter, n) == Take(SortedDesc(counter), n)

\* faulty variant of islice: one element too many is skipped
islice_skipping(s, start) == SubSeq(s, start + 2, Len(s))

\* itertools.islice(s, start, None)
islice(s, start) == SubSeq(s, start + 1, Len(s))

\* zip of two / three sequences stops at the shortest
zip2(a, b) == [i \in 1..Min(Len(a), Len(b)) |-> <<a[i], b[i]>>]
zip3(a, b, c) ==
  [i \in 1..Min(Len(a), Min(Len(b), Len(c))) |-> <<a[i], b[i], c[i]>>]

Column(table, field) == [i \in 1..Len(table) |-> table[i][field]]

\* round(num / den, 3) in thousandths, halves to the even neighbour
\* (the quotient is taken exactly, not in binary floating point)
Round3(num, den) ==
  LET q == (num * 1000) \div den
      r == (num * 1000) % den
  IN  IF 2 * r > den \/ (2 * r = den /\ q % 2 = 1) THEN q + 1 ELSE q

\* Series.str.contains(needle, case=False) on one value
Contains(hay, needle) ==
  LET h == ToLower(hay)
      n == ToLower(needle)
  IN  \E i \in 1..(Len(h) - Len(n) + 1) : SubSeq(h, i, i + Len(n) - 1) = n

fillna(value) == IF isnull(value) THEN <<>> ELSE value

\* ------------------------------------------------------------ the analyses
\* all_tokens = " ".join(df["cleaned_quote"]).split()
CorpusTokens(table) == Split(Join(Column(table, "cleaned_quote")))

\* H1
H1Result(tokens, motivational) ==
  LET motivational_tokens == SelectSeq(tokens, LAMBDA t : t \in motivational)
      freq == Counter(motivational_tokens)
  IN  [h1_freq |-> freq, top |-> most_common(freq, TopWords)]

\* H2; share is the exact fraction num / den of the percentage
H2Result(table, second_person) ==
  LET inspirational_df ==
        SelectSeq(table, LAMBDA r : Contains(fillna(r.tags), TagNeedle))
      inspirational_tokens == Split(Join(Column(inspirational_df, "cleaned_quote")))
      count == Len(SelectSeq(inspirational_tokens, LAMBDA w : w \in second_person))
      total == Len(inspirational_tokens)
  IN  [second_person_count |-> count,
       total_insp_tokens |-> total,
       share |-> IF total # 0 THEN [num |-> count * 100, den |-> total]
                 ELSE [num |-> 0, den |-> 1]]

\* H3: the loop over df.iterrows(); counts is the dict in insertion order
RECURSIVE EmotionCounts(_, _, _, _, _)
EmotionCounts(table, i, counts, positive, negative) ==
  IF i > Len(table) THEN counts
  ELSE
    LET author == table[i].author
        words == Split(table[i].cleaned_quote)
        pos == Len(SelectSeq(words, LAMBDA w : w \in positive))
        neg == Len(SelectSeq(words, LAMBDA w : w \in negative))
        known == \E k \in 1..Len(counts) : counts[k].author = author
        withKey == IF known THEN counts
                   ELSE Append(counts, [author |-> author, positive |-> 0, negative |-> 0])
        updated == [k \in 1..Len(withKey) |->
                      IF withKey[k].author = author
                      THEN [withKey[k] EXCEPT !.positive = @ + pos, !.negative = @ + neg]
                      ELSE withKey[k]]
    IN  EmotionCounts(table, i + 1, updated, positive, negative)

EmotionTotal(c) == c.positive + c.negative

\* faulty variant of RankAuthors: reverse=True is missing
RankAuthors_ascending(counts) ==
  LET keyed == [k \in 1..Len(counts) |-> <<counts[k], 0 - EmotionTotal(counts[k])>>]
      sorted == SortedDesc(keyed)
  IN  Take([k \in 1..Len(sorted) |-> sorted[k][1]], TopAuthors)

RankAuthors(counts) ==
  LET keyed == [k \in 1..Len(counts) |-> <<counts[k], EmotionTotal(counts[k])>>]
      sorted == SortedDesc(keyed)
  IN  Take([k \in 1..Len(sorted) |-> sorted[k][1]], TopAuthors)

H3Result(table, positive, negative) ==
  LET counts == EmotionCounts(table, 1, <<>>, positive, negative)
  IN  [author_emotion_counts |-> counts, ranked_authors |-> RankAuthors(counts)]

\* H4
Bigrams(tokens) == zip2(tokens, islice(tokens, 1))
Trigrams(tokens) == zip3(tokens, islice(tokens, 1), islice(tokens, 2))

H4Result(tokens) ==
  [bigrams |-> Bigrams(tokens),
   trigrams |-> Trigrams(tokens),
   top_bigrams |-> most_common(Counter(Bigrams(tokens)), TopNgrams),
   top_trigrams |-> most_common(Counter(Trigrams(tokens)), TopNgrams)]

\* H5: value_counts() orders the authors by descending number of rows,
\* authors of equal count in order of first appearance; nlargest(5) keeps
\* the first five
TopQuoted(table) ==
  LET top == most_common(Counter(Column(table, "author")), TopAuthors)
  IN  [k \in 1..Len(top) |-> top[k][1]]

\* faulty variant of VocabStats: the ratio is total / unique
VocabStats_inverted(table, author) ==
  LET author_quotes == SelectSeq(table, LAMBDA r : r.author = author)
      words == Split(Join(Column(author_quotes, "cleaned_quote")))
      total == Len(words)
      unique == Cardinality({words[i] : i \in 1..Len(words)})
  IN  [author |-> author,
       total_words |-> total,
       unique_words |-> unique,
       diversity |-> IF total # 0 THEN Round3(total, unique) ELSE 0]

VocabStats(table, author) ==
  LET author_quotes == SelectSeq(table, LAMBDA r : r.author = author)
      words == Split(Join(Column(author_quotes, "cleaned_quote")))
      total == Len(words)
      unique == Cardinality({words[i] : i \in 1..Len(words)})
  IN  [author |-> author,
       total_words |-> total,
       unique_words |-> unique,
       diversity |-> IF total # 0 THEN Round3(unique, total) ELSE 0]

H5Result(table) ==
  LET top_authors == TopQuoted(table)
  IN  [top_authors |-> top_authors,
       author_vocab_stats |->
         [k \in 1..Len(top_authors) |-> VocabStats(table, top_authors[k])]]

\* ------------------------------------------------------------------- inputs
\* characters of the texts handed to clean_text on its own
CleanAlphabet == {"a", "B", " ", "\t", "-", "'", "U+2019"}

SeqsUpTo(S, n) == UNION {[1..k -> S] : k \in 0..n}

SampleQuotes == {NaN, QuoteYou, QuoteHope, QuoteLong}
SampleAuthors == {"Twain", "Austen"}
SampleTags == {NaN, TagInsp}

\* the rows a file can hold; a column the file lacks is left empty
SampleRows(has_author, has_tags) ==
  [quote : SampleQuotes,
   author : IF has_author THEN SampleAuthors ELSE {""},
   tags : IF has_tags THEN SampleTags ELSE {<<>>}]

\* tables in which every row has an author of its own
AuthorNames ==
  <<"Author1", "Author2", "Author3", "Author4",
    "Author5", "Author6", "Author7", "Author8">>

AuthorQuotes == {NaN, QuoteLove, QuoteLong}

AuthorTables(n) ==
  {[i \in 1..n |-> [quote |-> q[i], author |-> AuthorNames[i], tags |-> TagLife]] :
     q \in [1..n -> AuthorQuotes]}

\* the rows of the tables that are analysed in every order
OrderRows == [quote : SampleQuotes, author : {"Twain"}, tags : {TagInsp}]

Analyzers == {"H1", "H2", "H3", "H4", "H5"}

\* the order in which the script runs the analyses; Orders are the orders in
\* which its five sections can be arranged once all_tokens is computed
ProgramOrder == <<"H1", "H2", "H3", "H4", "H5">>

Orders == {o \in [1..5 -> Analyzers] : \A a \in Analyzers : \E i \in 1..5 : o[i] = a}

\* -------------------------------------------------------------------- state
VARIABLES
  pc,                   \* position of the script
  input,                \* sample_data.csv as pd.read_csv finds it
  df,                   \* the table
  csv,                  \* cleaned_quotes.csv
  all_tokens,           \* the corpus token sequence
  motivational_words, second_person_words,
  positive_emotions, negative_emotions,
  order,                \* the order in which the analyses run
  reported,             \* the analyses that have run and printed
  h1, h2, h3, h4, h5,   \* the results of the analyses
  text, cleaned, recleaned, stage   \* a call of clean_text on its own

wordsets == <<motivational_words, second_person_words,
              positive_emotions, negative_emotions>>
results == <<h1, h2, h3, h4, h5>>
call == <<text, cleaned, recleaned, stage>>
vars == <<pc, input, df, csv, all_tokens, wordsets, order, reported,
          results, call>>

\* the results before any analysis has run
NoH1 == [h1_freq |-> <<>>, top |-> <<>>]
NoH2 == [second_person_count |-> 0, total_insp_tokens |-> 0,
         share |-> [num |-> 0, den |-> 1]]
NoH3 == [author_emotion_counts |-> <<>>, ranked_authors |-> <<>>]
NoH4 == [bigrams |-> <<>>, trigrams |-> <<>>,
         top_bigrams |-> <<>>, top_trigrams |-> <<>>]
NoH5 == [top_authors |-> <<>>, author_vocab_stats |-> <<>>]

InitScript ==
  /\ pc = "load"
  /\ df = <<>>
  /\ csv = [written |-> FALSE, rows |-> <<>>]
  /\ all_tokens = <<>>
  /\ motivational_words = MotivationalWords
  /\ second_person_words = SecondPersonWords
  /\ positive_emotions = PositiveEmotions
  /\ negative_emotions = NegativeEmotions
  /\ reported = {}
  /\ h1 = NoH1 /\ h2 = NoH2 /\ h3 = NoH3 /\ h4 = NoH4 /\ h5 = NoH5

NoCall ==
  /\ text = <<>> /\ cleaned = <<>> /\ recleaned = <<>>
  /\ stage = "none"

\* a file that cannot be loaded
InitUnloadable ==
  /\ input \in [status : {"missing", "malformed", "no_quote_column"},
                has_author : {TRUE}, has_tags : {TRUE}, rows : {<<>>}]
  /\ order = ProgramOrder

\* a file of up to MaxRows sample rows, with or without the optional columns
InitSample ==
  /\ \E a \in BOOLEAN, t \in BOOLEAN :
       input \in [status : {"ok"}, has_author : {a}, has_tags : {t},
                  rows : SeqsUpTo(SampleRows(a, t), MaxRows)]
  /\ order = ProgramOrder

\* a file of up to MaxAuthorRows rows, one author each
InitAuthors ==
  /\ input \in [status : {"ok"}, has_author : {TRUE}, has_tags : {TRUE},
                rows : UNION {AuthorTables(n) :
                                n \in 0..Min(MaxAuthorRows, Len(AuthorNames))}]
  /\ order = ProgramOrder

\* a file of up to MaxOrderRows sample rows, analysed in any order
InitOrders ==
  /\ input \in [status : {"ok"}, has_author : {TRUE}, has_tags : {TRUE},
                rows : SeqsUpTo(OrderRows, MaxOrderRows)]
  /\ order \in Orders

Init ==
  /\ InitScript
  /\ NoCall
  /\ (InitUnloadable \/ InitSample \/ InitAuthors \/ InitOrders)

\* ------------------------------------------------------------------ actions
\* lines 45-50, the file loads
Load ==
  /\ pc = "load"
  /\ input.status = "ok"
  /\ df' = [i \in 1..Len(input.rows) |->
              [quote |-> fillna(input.rows[i].quote),
               author |-> IF input.has_author THEN input.rows[i].author ELSE "",
               tags |-> IF input.has_tags THEN input.rows[i].tags ELSE <<>>,
               cleaned_quote |-> <<>>]]
  /\ pc' = "clean"
  /\ UNCHANGED <<input, csv, all_tokens, wordsets, order, reported, results, call>>

\* faulty variant of LoadFail: the failure is swallowed and the script goes on
\* with an empty table
LoadFail_continues ==
  /\ pc = "load"
  /\ input.status # "ok"
  /\ pc' = "clean"
  /\ UNCHANGED <<input, df, csv, all_tokens, wordsets, order, reported, results, call>>

\* lines 45-48, pd.read_csv or df["quote"] raises and the script ends
LoadFail ==
  /\ pc = "load"
  /\ input.status # "ok"
  /\ pc' = "failed"
  /\ UNCHANGED <<input, df, csv, all_tokens, wordsets, order, reported, results, call>>

\* line 94
Clean ==
  /\ pc = "clean"
  /\ df' = [i \in 1..Len(df) |->
              [df[i] EXCEPT !.cleaned_quote = clean_text(df[i].quote)]]
  /\ pc' = "save"
  /\ UNCHANGED <<input, csv, all_tokens, wordsets, order, reported, results, call>>

\* line 97
Save ==
  /\ pc = "save"
  /\ csv' = [written |-> TRUE, rows |-> df]
  /\ pc' = "tokenize"
  /\ UNCHANGED <<input, df, all_tokens, wordsets, order, reported, results, call>>

\* line 120
Tokenize ==
  /\ pc = "tokenize"
  /\ all_tokens' = CorpusTokens(df)
  /\ pc' = "analyze"
  /\ UNCHANGED <<input, df, csv, wordsets, order, reported, results, call>>

Turn(a) ==
  /\ pc = "analyze"
  /\ Cardinality(reported) < 5
  /\ order[Cardinality(reported) + 1] = a
  /\ reported' = reported \cup {a}

\* faulty variant of H1: the filter is applied to all_tokens in place
H1_consuming ==
  /\ Turn("H1")
  /\ h1' = H1Result(all_tokens, motivational_words)
  /\ all_tokens' = SelectSeq(all_tokens, LAMBDA t : t \in motivational_words)
  /\ UNCHANGED <<pc, input, df, csv, wordsets, order, h2, h3, h4, h5, call>>

H1 ==
  /\ Turn("H1")
  /\ h1' = H1Result(all_tokens, motivational_words)
  /\ UNCHANGED <<pc, input, df, csv, all_tokens, wordsets, order, h2, h3, h4, h5, call>>

H2 ==
  /\ Turn("H2")
  /\ h2' = H2Result(df, second_person_words)
  /\ UNCHANGED <<pc, input, df, csv, all_tokens, wordsets, order, h1, h3, h4, h5, call>>

H3 ==
  /\ Turn("H3")
  /\ h3' = H3Result(df, positive_emotions, negative_emotions)
  /\ UNCHANGED <<pc, input, df, csv, all_tokens, wordsets, order, h1, h2, h4, h5, call>>

H4 ==
  /\ Turn("H4")
  /\ h4' = H4Result(all_tokens)
  /\ UNCHANGED <<pc, input, df, csv, all_tokens, wordsets, order, h1, h2, h3, h5, call>>

H5 ==
  /\ Turn("H5")
  /\ h5' = H5Result(df)
  /\ UNCHANGED <<pc, input, df, csv, all_tokens, wordsets, order, h1, h2, h3, h4, call>>

\* lines 273-274
Finish ==
  /\ pc = "analyze"
  /\ Cardinality(reported) = 5
  /\ pc' = "done"
  /\ UNCHANGED <<input, df, csv, all_tokens, wordsets, order, reported, results, call>>

Next ==
  \/ Load \/ LoadFail \/ Clean \/ Save \/ Tokenize
  \/ H1 \/ H2 \/ H3 \/ H4 \/ H5 \/ Finish

Spec == Init /\ [][Next]_vars

\* ------------------------------------------------- clean_text on its own
CleanTexts == SeqsUpTo(CleanAlphabet, MaxLen) \cup {NaN}

InitClean ==
  /\ text \in CleanTexts
  /\ cleaned = <<>> /\ recleaned = <<>>
  /\ stage = "input"
  /\ pc = "none"
  /\ input = [status |-> "missing", has_author |-> TRUE, has_tags |-> TRUE,
              rows |-> <<>>]
  /\ order = ProgramOrder
  /\ df = <<>>
  /\ csv = [written |-> FALSE, rows |-> <<>>]
  /\ all_tokens = <<>>
  /\ motivational_words = MotivationalWords
  /\ second_person_words = SecondPersonWords
  /\ positive_emotions = PositiveEmotions
  /\ negative_emotions = NegativeEmotions
  /\ reported = {}
  /\ h1 = NoH1 /\ h2 = NoH2 /\ h3 = NoH3 /\ h4 = NoH4 /\ h5 = NoH5

CallCleanText ==
  /\ stage = "input"
  /\ cleaned' = clean_text(text)
  /\ stage' = "cleaned"
  /\ UNCHANGED <<pc, input, df, csv, all_tokens, wordsets, order, reported,
                 results, text, recleaned>>

CallCleanTextAgain ==
  /\ stage = "cleaned"
  /\ recleaned' = clean_text(cleaned)
  /\ stage' = "recleaned"
  /\ UNCHANGED <<pc, input, df, csv, all_tokens, wordsets, order, reported,
                 results, text, cleaned>>

NextClean == CallCleanText \/ CallCleanTextAgain

SpecClean == InitClean /\ [][NextClean]_vars

\* ============================================================== properties
\* The results of the analyses are examined when the script has finished
\* (pc = "done"); C10 shows that no later step changes a reported result.
\* the curly double and single quotes
CurlyQuotes == {"U+201C", "U+201D", "U+2018", "U+2019"}
Range(s) == {s[i] : i \in 1..Len(s)}
Occurrences(s, x) == Cardinality({i \in 1..Len(s) : s[i] = x})
FirstIndex(s, x) ==
  LET at == {i \in 1..Len(s) : s[i] = x}
  IN  CHOOSE i \in at : \A j \in at : i <= j
Keys(entries) == {entries[k][1] : k \in 1..Len(entries)}
Max0(n) == IF n < 0 THEN 0 ELSE n

RowTokens(r) == Split(df[r].cleaned_quote)
\* the number of tokens of the rows before row r
TokensBefore(r) ==
  Cardinality(UNION {{<<q, k>> : k \in 1..Len(RowTokens(q))} : q \in 1..(r - 1)})
EmotionWords == PositiveEmotions \cup NegativeEmotions
EmotionalPositions(t) == {k \in 1..Len(t) : t[k] \in EmotionWords}
\* the number of emotional tokens in the rows of one author
AuthorEmotionTotal(a) ==
  Cardinality(UNION {{<<r, k>> : k \in EmotionalPositions(RowTokens(r))} :
                     r \in {r \in 1..Len(df) : df[r].author = a}})
AuthorsOfTable == {df[r].author : r \in 1..Len(df)}
EmotionalAuthors == {a \in AuthorsOfTable : AuthorEmotionTotal(a) > 0}
RankedAuthorNames == {h3.ranked_authors[k].author : k \in 1..Len(h3.ranked_authors)}
Called == stage \in {"cleaned", "recleaned"}

\* C1: the output of clean_text contains no curly double or single quote, no
\* straight double or single quote and no ASCII punctuation character.
C1_NoRemovedCharacter ==
  Called => \A i \in 1..Len(cleaned) :
              cleaned[i] \notin CurlyQuotes \cup {"\"", "'"} \cup Punctuation

\* C2: the output of clean_text (the empty string for a missing value) has no
\* two consecutive spaces and no leading or trailing space.
C2_SingleSpaced ==
  Called =>
    /\ \A i \in 1..(Len(cleaned) - 1) : ~(cleaned[i] = " " /\ cleaned[i + 1] = " ")
    /\ cleaned # <<>> => (cleaned[1] # " " /\ cleaned[Len(cleaned)] # " ")
    /\ isnull(text) => cleaned = <<>>

\* C3: clean_text is idempotent: clean_text(clean_text(t)) = clean_text(t).
C3_Idempotent == stage = "recleaned" => recleaned = cleaned

\* C4 as stated: when the table has at least 5 distinct authors, no author
\* whose positive+negative count is zero is in the reported top 5.
C4_NoZeroAuthorAmongFiveAuthors ==
  (pc = "done" /\ Cardinality(AuthorsOfTable) >= TopAuthors) =>
    \A a \in RankedAuthorNames : AuthorEmotionTotal(a) # 0

\* C4 amended: an author whose positive+negative count is zero is in the
\* reported top 5 only when fewer than 5 distinct authors have a count above
\* zero.
C4_ZeroAuthorOnlyToFillUp ==
  pc = "done" =>
    \/ \A a \in RankedAuthorNames : AuthorEmotionTotal(a) # 0
    \/ Cardinality(EmotionalAuthors) < TopAuthors

C4_Witness ==
  /\ pc = "done"
  /\ Cardinality(EmotionalAuthors) >= TopAuthors
  /\ \E a \in AuthorsOfTable : AuthorEmotionTotal(a) = 0 /\ a \notin RankedAuthorNames

\* C5: the H2 percentage lies in [0, 100] and every reported H5 diversity in
\* [0, 1]; with a zero denominator (no inspirational record, no token in the
\* matched records, no token in the author's quotes) the value is exactly 0.
C5_RatiosInRange ==
  /\ pc = "done" =>
       /\ h2.share.den > 0
       /\ 0 <= h2.share.num /\ h2.share.num <= 100 * h2.share.den
       /\ (\A r \in 1..Len(df) :
             Contains(fillna(df[r].tags), TagNeedle) => RowTokens(r) = <<>>)
            => h2.share.num = 0
  /\ pc = "done" =>
       \A k \in 1..Len(h5.author_vocab_stats) :
         LET s == h5.author_vocab_stats[k] IN
           /\ 0 <= s.diversity /\ s.diversity <= 1000
           /\ (\A r \in 1..Len(df) : df[r].author = s.author => RowTokens(r) = <<>>)
                => s.diversity = 0

C5_Witness ==
  /\ pc = "done"
  /\ \E r \in 1..Len(df) : Contains(fillna(df[r].tags), TagNeedle)
  /\ h2.total_insp_tokens = 0
  /\ \E k \in 1..Len(h5.author_vocab_stats) : h5.author_vocab_stats[k].total_words = 0
  /\ \E k \in 1..Len(h5.author_vocab_stats) :
       /\ h5.author_vocab_stats[k].diversity > 0
       /\ h5.author_vocab_stats[k].diversity < 1000

\* C6: with n the number of tokens of the joined cleaned quotes, there are
\* n-1 bigrams and n-2 trigrams (0 below 2 resp. 3 tokens), entry i holds the
\* tokens at corpus positions i, i+1 (, i+2), and the last token of a record
\* and the first token of the next non-empty record form a bigram.
C6_NgramsOfCorpus ==
  pc = "done" =>
    LET n == TokensBefore(Len(df) + 1) IN
      /\ Len(all_tokens) = n
      /\ \A r \in 1..Len(df) :
           LET t == RowTokens(r)
               b == TokensBefore(r)
           IN  \A k \in 1..Len(t) : all_tokens[b + k] = t[k]
      /\ Len(h4.bigrams) = Max0(n - 1)
      /\ Len(h4.trigrams) = Max0(n - 2)
      /\ \A i \in 1..Len(h4.bigrams) :
           h4.bigrams[i] = <<all_tokens[i], all_tokens[i + 1]>>
      /\ \A i \in 1..Len(h4.trigrams) :
           h4.trigrams[i] = <<all_tokens[i], all_tokens[i + 1], all_tokens[i + 2]>>
      /\ \A r \in 1..Len(df) : \A q \in (r + 1)..Len(df) :
           (/\ df[r].cleaned_quote # <<>> /\ df[q].cleaned_quote # <<>>
            /\ \A m \in (r + 1)..(q - 1) : RowTokens(m) = <<>>)
           => LET tr == RowTokens(r)
                  tq == RowTokens(q)
              IN  h4.bigrams[TokensBefore(q)] = <<tr[Len(tr)], tq[1]>>

C6_Witness ==
  /\ pc = "done"
  /\ \E r \in 1..Len(df) : \E q \in (r + 2)..Len(df) :
       /\ RowTokens(r) # <<>> /\ RowTokens(q) # <<>>
       /\ \A m \in (r + 1)..(q - 1) : RowTokens(m) = <<>>
  /\ Len(h4.trigrams) > TopNgrams

\* the reported counts fall, and no key of the stream that is left out of
\* the list occurs more often than the last reported entry
RankingFalls(top, stream) ==
  /\ \A k \in 1..(Len(top) - 1) : top[k][2] >= top[k + 1][2]
  /\ \A x \in Range(stream) \ Keys(top) :
       top # <<>> /\ Occurrences(stream, x) <= top[Len(top)][2]

MotivationalStream == SelectSeq(all_tokens, LAMBDA t : t \in MotivationalWords)

\* C7: in the H1 top 20, the H3 top 5 and the H4 top 10 bigrams and trigrams
\* every count is at least the count of the next entry, and no key left out
\* has a count greater than that of the last reported entry.
C7_RankingsFall ==
  /\ pc = "done" => RankingFalls(h1.top, MotivationalStream)
  /\ pc = "done" => /\ RankingFalls(h4.top_bigrams, h4.bigrams)
                          /\ RankingFalls(h4.top_trigrams, h4.trigrams)
  /\ pc = "done" =>
       LET top == h3.ranked_authors IN
         /\ \A k \in 1..(Len(top) - 1) :
              EmotionTotal(top[k]) >= EmotionTotal(top[k + 1])
         /\ \A k \in 1..Len(top) :
              EmotionTotal(top[k]) = AuthorEmotionTotal(top[k].author)
         /\ \A a \in AuthorsOfTable \ RankedAuthorNames :
              top # <<>> /\ AuthorEmotionTotal(a) <= EmotionTotal(top[Len(top)])

C7_Witness ==
  /\ pc = "done"
  /\ Len(h1.top) = TopWords /\ Range(MotivationalStream) \ Keys(h1.top) # {}
  /\ h1.top[1][2] > h1.top[TopWords][2]
  /\ Len(h4.top_bigrams) = TopNgrams /\ h4.top_bigrams[1][2] > h4.top_bigrams[TopNgrams][2]
  /\ Len(h3.ranked_authors) = TopAuthors /\ AuthorsOfTable \ RankedAuthorNames # {}
  /\ EmotionTotal(h3.ranked_authors[1]) > EmotionTotal(h3.ranked_authors[TopAuthors])

\* C8: when the input file is missing or malformed or has no quote column,
\* the run fails before any analysis: cleaned_quotes.csv is not written and
\* no H1-H5 result is computed or reported.
C8_LoadFailureStopsTheRun ==
  input.status # "ok" =>
    /\ pc \in {"load", "failed"}
    /\ ~csv.written
    /\ df = <<>> /\ all_tokens = <<>>
    /\ reported = {}
    /\ h1 = NoH1 /\ h2 = NoH2 /\ h3 = NoH3 /\ h4 = NoH4 /\ h5 = NoH5

C8_Witness == pc = "failed" /\ input.status = "no_quote_column"

\* entries of equal count stand in the order of first occurrence in the
\* stream, and a left-out key that ties with a reported one occurs later
TiesFirstSeen(top, stream) ==
  /\ \A i \in 1..Len(top) : \A j \in (i + 1)..Len(top) :
       top[i][2] = top[j][2] =>
         FirstIndex(stream, top[i][1]) < FirstIndex(stream, top[j][1])
  /\ \A x \in Range(stream) \ Keys(top) :
       LET count == Occurrences(stream, x) IN
         \A k \in 1..Len(top) :
           count = top[k][2] =>
             FirstIndex(stream, top[k][1]) < FirstIndex(stream, x)

\* C9: keys of equal count are reported in first-seen order (H1, H4: first
\* occurrence in the token stream; H3: first row of the author), which also
\* decides which of several tied keys is cut off at the limit.
C9_TiesInFirstSeenOrder ==
  /\ pc = "done" => TiesFirstSeen(h1.top, MotivationalStream)
  /\ pc = "done" => /\ TiesFirstSeen(h4.top_bigrams, h4.bigrams)
                          /\ TiesFirstSeen(h4.top_trigrams, h4.trigrams)
  /\ pc = "done" =>
       LET top == h3.ranked_authors
           authors == Column(df, "author")
       IN
         /\ \A i \in 1..Len(top) :
              LET total == AuthorEmotionTotal(top[i].author) IN
                \A j \in (i + 1)..Len(top) :
                  total = AuthorEmotionTotal(top[j].author) =>
                    FirstIndex(authors, top[i].author) < FirstIndex(authors, top[j].author)
         /\ \A a \in AuthorsOfTable \ RankedAuthorNames :
              LET total == AuthorEmotionTotal(a) IN
                \A k \in 1..Len(top) :
                  total = AuthorEmotionTotal(top[k].author) =>
                    FirstIndex(authors, top[k].author) < FirstIndex(authors, a)

C9_Witness ==
  /\ pc = "done"
  /\ \E x \in Range(MotivationalStream) \ Keys(h1.top) :
       Occurrences(MotivationalStream, x) = h1.top[Len(h1.top)][2]
  /\ \E x \in Range(h4.bigrams) \ Keys(h4.top_bigrams) :
       Occurrences(h4.bigrams, x) = h4.top_bigrams[Len(h4.top_bigrams)][2]
  /\ \E a \in AuthorsOfTable \ RankedAuthorNames :
       AuthorEmotionTotal(a) = EmotionTotal(h3.ranked_authors[Len(h3.ranked_authors)])
  /\ \E i \in 1..Len(h3.ranked_authors) : \E j \in (i + 1)..Len(h3.ranked_authors) :
       EmotionTotal(h3.ranked_authors[i]) = EmotionTotal(h3.ranked_authors[j])

\* the five results as the table alone determines them
ResultsOfTable ==
  <<H1Result(CorpusTokens(df), MotivationalWords),
    H2Result(df, SecondPersonWords),
    H3Result(df, PositiveEmotions, NegativeEmotions),
    H4Result(CorpusTokens(df)),
    H5Result(df)>>

====
